---- MODULE Spec2Model ----
(***************************************************************************)
(* Video analysis job pipeline of the basketball video server.             *)
(*                                                                         *)
(* The repository holds several revisions of one Express server.  The two  *)
(* revisions that keep a job record per video are modelled here:           *)
(*   "server.js"  src/server.js                                            *)
(*   "part_000"   src/unnamed/part_000, lines 134-435                      *)
(* The two older revisions, which keep no job record and analyze the last  *)
(* uploaded file, have a specification of their own (LegacySpec), and so   *)
(* have the text functions of the handlers, applied to inputs on their own *)
(* (ParseSpec, LabelsSpec).  FairSpec adds to Spec the steps that are      *)
(* bound to happen, and ChatSpec the /chat handler.                        *)
(* Each request handler is an async function: the code between two awaits  *)
(* runs atomically on the event loop, so every action below is one such    *)
(* run-to-completion segment, and the external effect an await waits for   *)
(* (a Firestore read or write, a bucket upload, the annotation operation,  *)
(* the language-model call) is part of the step that resumes after it,     *)
(* except for the two writes of the analysis (the bucket upload and the    *)
(* record update), which take effect in a step of their own.               *)
(*                                                                         *)
(* Text is modelled as a sequence of tokens.  A token is one lexical unit  *)
(* of the model's reply: a brace, a comma, a space, a word of prose, a     *)
(* member name with its colon, or a scalar value.                          *)
(***************************************************************************)
EXTENDS Integers, Sequences, FiniteSets, TLC

\* ------------------------------------------------------------------ bounds

\* Number of upload requests, hence of job records.
MaxVideos == 2
\* Number of analyze requests.
MaxCalls == 2
\* Largest value of the wall clock.
MaxClock == 1

\* ------------------------------------------------------------------ tokens

LB == "{"
RB == "}"
COMMA == ","
SP == " "
\* A word of prose: text that is no JSON.
PROSE == "w"
\* Scalar JSON values (a string such as "42%", or an array of zone labels).
Scalars == {"a", "b"}

\* The top-level members the prompt asks for.
RequiredKeys ==
  {"shotZones", "playStyle", "defense", "rimTendencies", "hotSpots", "handDominance"}

\* Member names a reply may use.
KeyTokens == RequiredKeys \cup {"note"}

Min(a, b) == IF a < b THEN a ELSE b
Max(a, b) == IF a > b THEN a ELSE b

\* ------------------------------------------------- JavaScript string methods

\* String.prototype.indexOf: 0-based index of the first c, or -1.
IndexOf(s, c) ==
  IF \E i \in 1..Len(s) : s[i] = c
  THEN (CHOOSE i \in 1..Len(s) : s[i] = c /\ \A j \in 1..(i - 1) : s[j] # c) - 1
  ELSE -1

\* The index of the first c where that of the last c is meant.
LastIndexOfFirst(s, c) ==
  IF \E i \in 1..Len(s) : s[i] = c
  THEN (CHOOSE i \in 1..Len(s) : s[i] = c /\ \A j \in 1..(i - 1) : s[j] # c) - 1
  ELSE -1

\* String.prototype.lastIndexOf: 0-based index of the last c, or -1.
LastIndexOf(s, c) ==
  IF \E i \in 1..Len(s) : s[i] = c
  THEN (CHOOSE i \in 1..Len(s) : s[i] = c /\ \A j \in (i + 1)..Len(s) : s[j] # c) - 1
  ELSE -1

\* A slice that takes an end of 0 for an omitted end (end || length).
SliceFalsyEnd(s, start, end) ==
  LET e    == IF end = 0 THEN Len(s) ELSE end
      from == IF start < 0 THEN Max(Len(s) + start, 0) ELSE Min(start, Len(s))
      to   == IF e < 0 THEN Max(Len(s) + e, 0) ELSE Min(e, Len(s))
  IN  IF from >= to THEN << >> ELSE SubSeq(s, from + 1, to)

\* String.prototype.slice(start, end): 0-based, end exclusive; a negative
\* index counts from the end; both are clamped to the string.
Slice(s, start, end) ==
  LET from == IF start < 0 THEN Max(Len(s) + start, 0) ELSE Min(start, Len(s))
      to   == IF end < 0 THEN Max(Len(s) + end, 0) ELSE Min(end, Len(s))
  IN  IF from >= to THEN << >> ELSE SubSeq(s, from + 1, to)

RECURSIVE TrimStart(_)
TrimStart(s) ==
  IF s # << >> /\ Head(s) = SP THEN TrimStart(Tail(s)) ELSE s

RECURSIVE TrimEnd(_)
TrimEnd(s) ==
  IF s # << >> /\ s[Len(s)] = SP THEN TrimEnd(SubSeq(s, 1, Len(s) - 1)) ELSE s

\* String.prototype.trim.
Trim(s) == TrimEnd(TrimStart(s))

\* ------------------------------------------------------------------- JSON

IsNotSpace(t) == t # SP

\* The text without its insignificant white space.
Significant(text) == SelectSeq(text, IsNotSpace)

\* ValueEnd(s, i): the index after the JSON value that starts at s[i], or 0
\* when no value starts there.  MembersEnd(s, i): the index after the "}"
\* closing an object whose next member starts at s[i], or 0.
RECURSIVE ValueEnd(_, _), MembersEnd(_, _)
ValueEnd(s, i) ==
  IF i > Len(s) THEN 0
  ELSE IF s[i] \in Scalars THEN i + 1
  ELSE IF s[i] = LB
       THEN IF i + 1 <= Len(s) /\ s[i + 1] = RB THEN i + 2 ELSE MembersEnd(s, i + 1)
  ELSE 0

MembersEnd(s, i) ==
  IF i > Len(s) \/ s[i] \notin KeyTokens THEN 0
  ELSE LET j == ValueEnd(s, i + 1)
       IN  IF j = 0 \/ j > Len(s) THEN 0
           ELSE IF s[j] = RB THEN j + 1
           ELSE IF s[j] = COMMA THEN MembersEnd(s, j + 1)
           ELSE 0

\* Whether JSON.parse(text) returns (TRUE) or throws a SyntaxError (FALSE).
JSONParses(text) ==
  LET s == Significant(text)
  IN  ValueEnd(s, 1) = Len(s) + 1

\* The members of the object s (white space removed, s[1] = "{") from index
\* i on, as a sequence of <<name, value text>>.
RECURSIVE MemberList(_, _)
MemberList(s, i) ==
  IF s[i] = RB THEN << >>
  ELSE LET j == ValueEnd(s, i + 1)
       IN  << <<s[i], SubSeq(s, i + 1, j - 1)>> >>
             \o MemberList(s, IF s[j] = COMMA THEN j + 1 ELSE j)

\* The value JSON.parse builds, written in canonical text: an object keeps
\* one member per name, at the place of the name's first occurrence and
\* with the value of its last.
RECURSIVE CanonValue(_), CanonMembers(_, _)
CanonValue(s) ==
  IF s[1] # LB THEN s
  ELSE <<LB>> \o CanonMembers(MemberList(s, 2), 1) \o <<RB>>

CanonMembers(ms, p) ==
  IF p > Len(ms) THEN << >>
  ELSE LET name  == ms[p][1]
           first == \A q \in 1..(p - 1) : ms[q][1] # name
           last  == CHOOSE q \in p..Len(ms) :
                      ms[q][1] = name /\ \A r \in (q + 1)..Len(ms) : ms[r][1] # name
           rest  == CanonMembers(ms, p + 1)
       IN  IF ~first THEN rest
           ELSE <<name>> \o CanonValue(ms[last][2])
                  \o (IF rest = << >> THEN << >> ELSE <<COMMA>> \o rest)

\* JSON.parse(text) for a text that parses.
JSONParse(text) == CanonValue(Significant(text))

\* The own property names of a parsed value.
TopKeys(value) ==
  IF value = << >> \/ value[1] # LB THEN {}
  ELSE LET ms == MemberList(value, 2) IN {ms[p][1] : p \in 1..Len(ms)}

\* JSON.stringify(value, null, 2): the canonical text, laid out with white
\* space after every "{" and ",".
RECURSIVE JSONStringify(_)
JSONStringify(value) ==
  IF value = << >> THEN << >>
  ELSE (IF Head(value) \in {LB, COMMA} THEN <<Head(value), SP>> ELSE <<Head(value)>>)
         \o JSONStringify(Tail(value))

\* ------------------------------------------------------- annotation payload

\* result.annotationResults[0] as the handler reads it: the list
\* segmentLabelAnnotations may be absent; a label's segments may be absent
\* (segments = -1) or hold that many entries.
NoLabelList == [hasLabels |-> FALSE, labels |-> << >>]
LabelList(ls) == [hasLabels |-> TRUE, labels |-> ls]
Label(d, n) == [description |-> d, segments |-> n]

\* The payloads the annotation service returns in this model.
Payloads ==
  { NoLabelList,
    LabelList(<< >>),
    LabelList(<<Label("drive", 2), Label("court", -1)>>) }

\* `${label.entity.description}: ${label.segments?.length || 0} segments`
AnalyzeLine(label) ==
  label.description \o ": "
    \o ToString(IF label.segments < 0 THEN 0 ELSE label.segments) \o " segments"

RECURSIVE MapLines(_)
MapLines(ls) ==
  IF ls = << >> THEN << >> ELSE <<AnalyzeLine(Head(ls))>> \o MapLines(Tail(ls))

\* The first labels of the analyze handler.
AnalyzeLabelLimit == 10

\* annotations.segmentLabelAnnotations?.slice(0, 10).map(...).join('\n')
\*   || 'No labels found'
\* The joined text is kept as its sequence of lines; the join of no line is
\* the empty string, which is falsy like the absent list.
AnalyzeLabels(annotations) ==
  LET lines == MapLines(Slice(annotations.labels, 0, AnalyzeLabelLimit))
  IN  IF ~annotations.hasLabels \/ lines = << >>
      THEN <<"No labels found">>
      ELSE lines

\* ------------------------------------------------------- model replies

RECURSIVE ObjectMembers(_, _)
ObjectMembers(names, v) ==
  IF names = << >> THEN << >>
  ELSE <<Head(names), v>>
         \o (IF Tail(names) = << >> THEN << >> ELSE <<COMMA>> \o ObjectMembers(Tail(names), v))

\* The text of an object whose members, in order, all have the scalar v.
ObjectText(names, v) == <<LB>> \o ObjectMembers(names, v) \o <<RB>>

SchemaOrder ==
  <<"shotZones", "playStyle", "defense", "rimTendencies", "hotSpots", "handDominance">>

\* What the language model may answer: choices[0].message.content.
Replies ==
  { ObjectText(SchemaOrder, "a"),
    <<SP, PROSE, SP>> \o ObjectText(SchemaOrder, "b") \o <<SP, PROSE>>,
    <<LB, "shotZones", LB, "note", "a", RB, RB>>,
    <<PROSE, SP, PROSE>>,
    <<"a">>,
    <<PROSE, LB, "shotZones", "a">>,
    <<RB, PROSE, LB>>,
    <<LB, PROSE, RB>> }

\* ------------------------------------------------------------------ state

Revisions == {"server.js", "part_000"}

VARIABLES
  revision,   \* the revision of the server that is deployed
  videos,     \* Firestore collection 'videos': document id -> document
  bucket,     \* bucket 'basketball-demo-videos': object name -> content
  tempFiles,  \* files in the server's directory: path -> content
  uploads,    \* the /upload-video requests, in order of arrival
  calls,      \* the /analyze-video requests, in order of arrival
  now,        \* the wall clock, new Date()
  lastUploadedFile,  \* the module variable of the revisions without job records
  probe       \* a function of the program applied to an input on its own

vars == <<revision, videos, bucket, tempFiles, uploads, calls, now,
          lastUploadedFile, probe>>

\* What the handlers of the revisions with job records never touch.
aside == <<lastUploadedFile, probe>>

\* A map with no entry.
Empty == << >>

\* A local variable that has not been assigned, and a request not answered.
Undefined == << >>
\* No function is applied on its own.
NoProbe == [op |-> "none"]
NoResponse == [status |-> 0, body |-> ""]

Response(status, body) == [status |-> status, body |-> body]

\* `analysis_${videoId}.json`
AnalysisFilename(videoId) == <<"analysis_", videoId>>
\* path.join(__dirname, analysisFilename)
TempPath(videoId) == <<"./analysis_", videoId>>
\* A destination outside the analysis/ folder.
DestinationNoFolder(videoId) == AnalysisFilename(videoId)

\* A destination that carries the time of writing.
DestinationStamped(videoId) == <<"analysis/analysis_", videoId, now>>

\* destination: `analysis/${analysisFilename}`
Destination(videoId) == <<"analysis/analysis_", videoId>>
\* A reference that leaves the folder out.
AnalysisPathNoFolder(videoId) == AnalysisFilename(videoId)

\* analysisPath: `analysis/${analysisFilename}`
AnalysisPath(videoId) == <<"analysis/analysis_", videoId>>
\* req.file.filename, the name multer gives the n-th uploaded file.
UploadFilename(n) == <<"upload_", n>>
\* `gs://basketball-demo-videos/${filename}`
GcsUri(filename) == <<"gs://basketball-demo-videos/", filename[2]>>

Init ==
  /\ revision \in Revisions
  /\ videos = Empty
  /\ bucket = Empty
  /\ tempFiles = Empty
  /\ uploads = << >>
  /\ calls = << >>
  /\ now = 0
  /\ lastUploadedFile = Undefined
  /\ probe = NoProbe

\* Time passes.
Tick ==
  /\ now < MaxClock
  /\ now' = now + 1
  /\ UNCHANGED <<aside, revision, videos, bucket, tempFiles, uploads, calls>>

\* ----------------------------------------------------------- /upload-video

NewUpload(pc, filename, response) ==
  [pc |-> pc, filename |-> filename, uploadedAt |-> 0, videoId |-> 0,
   response |-> response]

\* A request arrives.  Without a file it is answered 400; with one, the
\* handler starts bucket.upload(localPath, { destination }).
UploadRequest(hasFile) ==
  /\ Len(uploads) < MaxVideos
  /\ uploads' = Append(uploads,
       IF hasFile
       THEN NewUpload("bucket", UploadFilename(Len(uploads) + 1), NoResponse)
       ELSE NewUpload("done", Undefined, Response(400, "No file uploaded")))
  /\ UNCHANGED <<aside, revision, videos, bucket, tempFiles, calls, now>>

\* The bucket upload is done; the handler starts db.collection('videos').add
\* with uploadedAt: new Date().
UploadStored(u) ==
  /\ uploads[u].pc = "bucket"
  /\ bucket' = (uploads[u].filename :> <<"video">>) @@ bucket
  /\ uploads' = [uploads EXCEPT ![u] = [@ EXCEPT !.pc = "add", !.uploadedAt = now]]
  /\ UNCHANGED <<aside, revision, videos, tempFiles, calls, now>>

\* A document created with an empty lastError.
NewVideoNullError(filename, t) ==
  [filename |-> filename, gcsUri |-> GcsUri(filename),
   status |-> "uploaded", uploadedAt |-> t, lastError |-> ""]

\* The document the upload handler adds.
NewVideo(filename, t) ==
  [filename |-> filename, gcsUri |-> GcsUri(filename),
   status |-> "uploaded", uploadedAt |-> t]

\* The document is added under a fresh id; the handler answers with it.
UploadAdded(u) ==
  /\ uploads[u].pc = "add"
  /\ LET id == Cardinality(DOMAIN videos) + 1
     IN  /\ videos' = (id :> NewVideo(uploads[u].filename, uploads[u].uploadedAt)) @@ videos
         /\ uploads' = [uploads EXCEPT ![u] =
              [@ EXCEPT !.pc = "done", !.videoId = id,
                        !.response = Response(200, "Uploaded")]]
  /\ UNCHANGED <<aside, revision, bucket, tempFiles, calls, now>>

\* bucket.upload or add rejects: the catch block answers 500.
UploadRejected(u) ==
  /\ uploads[u].pc \in {"bucket", "add"}
  /\ uploads' = [uploads EXCEPT ![u] =
       [@ EXCEPT !.pc = "done", !.response = Response(500, "Upload failed")]]
  /\ UNCHANGED <<aside, revision, videos, bucket, tempFiles, calls, now>>

\* ---------------------------------------------------------- /analyze-video

\* The handler's answers.
VideoIdRequired == Response(400, "videoId is required")
VideoNotFound == Response(404, "Video not found")
AnalysisFailed == Response(500, "Analysis failed")
InvalidJSON == Response(500, "OpenAI returned invalid JSON. Check logs for details.")
AnalysisComplete == Response(200, "Analysis complete")

\* A request: where the handler stands (pc names the await it is suspended
\* on), its local variables, the timestamp of the update it has sent, and
\* its answer.  fault, reply, annotateCalls and llmCalls record what the
\* collaborators did for this request: the external failure that struck it,
\* the kind of reply the language model gave, and how often
\* videoClient.annotateVideo and openai.chat.completions.create were called.
NewCall(pc, videoId, response) ==
  [pc |-> pc, videoId |-> videoId, gcsUri |-> Undefined, labels |-> Undefined,
   content |-> Undefined, parsed |-> Undefined, analyzedAt |-> 0,
   response |-> response,
   fault |-> "none", reply |-> "none", annotateCalls |-> 0, llmCalls |-> 0]

\* A handler that answers and does not return.
AnswerAndGoOn(call, response) == [call EXCEPT !.response = response]

\* The handler returns after answering: its local variables are gone.
Return(call, response) ==
  [call EXCEPT !.pc = "done", !.response = response, !.gcsUri = Undefined,
               !.labels = Undefined, !.content = Undefined, !.parsed = Undefined,
               !.analyzedAt = 0]

\* A request arrives with query parameter videoId (0: none given).  The
\* handler answers 400 or starts docRef.get().
AnalyzeRequest(videoId) ==
  /\ Len(calls) < MaxCalls
  /\ calls' = Append(calls,
       IF videoId = 0
       THEN NewCall("done", videoId, VideoIdRequired)
       ELSE NewCall("get", videoId, NoResponse))
  /\ UNCHANGED <<aside, revision, videos, bucket, tempFiles, uploads, now>>

\* A handler without the doc.exists check: destructuring doc.data() of a
\* missing document throws a TypeError, and the catch block answers 500.
AfterGetNoExistsCheck(call) ==
  IF call.videoId \notin DOMAIN videos
  THEN [call EXCEPT !.pc = "done", !.response = Response(500, "Analysis failed")]
  ELSE [call EXCEPT !.pc = "annotate",
                    !.gcsUri = videos[call.videoId].gcsUri,
                    !.annotateCalls = @ + 1]

\* The handler after docRef.get() resolved.  No such document
\* (!doc.exists): 404.  Otherwise it reads gcsUri and calls
\* videoClient.annotateVideo.
AfterGet(call) ==
  IF call.videoId \notin DOMAIN videos
  THEN Return(call, VideoNotFound)
  ELSE [call EXCEPT !.pc = "annotate",
                    !.gcsUri = videos[call.videoId].gcsUri,
                    !.annotateCalls = @ + 1]

AnalyzeGot(c) ==
  /\ calls[c].pc = "get"
  /\ calls' = [calls EXCEPT ![c] = AfterGet(@)]
  /\ UNCHANGED <<aside, revision, videos, bucket, tempFiles, uploads, now>>

\* annotateVideo resolved with the operation; the handler awaits
\* operation.promise({ timeout: 600000 }).
AnalyzeSubmitted(c) ==
  /\ calls[c].pc = "annotate"
  /\ calls' = [calls EXCEPT ![c].pc = "wait"]
  /\ UNCHANGED <<aside, revision, videos, bucket, tempFiles, uploads, now>>

\* The operation resolved with a payload.
\*   part_000: the labels are extracted, the prompt is built and sent to
\*     openai.chat.completions.create.
\*   server.js: parseAnalysis is not defined; evaluating the call throws a
\*     ReferenceError, and the catch block answers 500.
AnalyzeAnnotated(c, annotations) ==
  /\ calls[c].pc = "wait"
  /\ calls' = [calls EXCEPT ![c] =
       IF revision = "part_000"
       THEN [@ EXCEPT !.pc = "llm", !.labels = AnalyzeLabels(annotations),
                      !.llmCalls = @ + 1]
       ELSE Return(@, AnalysisFailed)]
  /\ UNCHANGED <<aside, revision, videos, bucket, tempFiles, uploads, now>>

\* content.slice(jsonStart, jsonEnd + 1) with jsonStart = content.indexOf('{')
\* and jsonEnd = content.lastIndexOf('}').
ExtractJSON(content) ==
  Slice(content, IndexOf(content, LB), LastIndexOf(content, RB) + 1)

\* What the handler does not compute but the claims speak of: the kind of
\* a reply, as the summary generator is specified.  A reply is malformed
\* when it has no "{" or no "}" or the text from its first "{" to its last
\* "}" is no JSON; otherwise that text is an object, which conforms to the
\* schema when it has every required member.
HasToken(text, c) == \E i \in 1..Len(text) : text[i] = c
FirstToken(text, c) == CHOOSE i \in 1..Len(text) :
  text[i] = c /\ \A j \in 1..Len(text) : text[j] = c => i <= j
LastToken(text, c) == CHOOSE i \in 1..Len(text) :
  text[i] = c /\ \A j \in 1..Len(text) : text[j] = c => j <= i
Embedded(text) == SubSeq(text, FirstToken(text, LB), LastToken(text, RB))
ReplyKind(text) ==
  IF ~HasToken(text, LB) \/ ~HasToken(text, RB) THEN "malformed"
  ELSE IF ~JSONParses(Embedded(text)) THEN "malformed"
  ELSE IF RequiredKeys \subseteq TopKeys(JSONParse(Embedded(text))) THEN "conformant"
  ELSE "schema"

\* The language model answered (part_000).  The reply is trimmed and the
\* text between the first "{" and the last "}" is parsed.  If JSON.parse
\* throws, the handler answers 500 and returns.  Otherwise it writes the
\* parsed value to the temp file and starts the upload to the bucket.
AnalyzeSummarized(c, reply) ==
  /\ calls[c].pc = "llm"
  /\ LET content == Trim(reply)
         text    == ExtractJSON(content)
     IN  IF ~JSONParses(text)
         THEN /\ calls' = [calls EXCEPT ![c] =
                   Return([@ EXCEPT !.reply = ReplyKind(reply)], InvalidJSON)]
              /\ UNCHANGED tempFiles
         ELSE /\ calls' = [calls EXCEPT ![c] =
                   [@ EXCEPT !.pc = "upload", !.content = content,
                             !.parsed = JSONParse(text),
                             !.reply = ReplyKind(reply)]]
              /\ tempFiles' = (TempPath(calls[c].videoId) :> JSONStringify(JSONParse(text)))
                                @@ tempFiles
  /\ UNCHANGED <<aside, revision, videos, bucket, uploads, now>>

\* bucket.upload(tempPath, { destination }) reads the file that is at
\* tempPath now and stores it under the destination.
AnalyzeStored(c) ==
  /\ calls[c].pc = "upload"
  /\ TempPath(calls[c].videoId) \in DOMAIN tempFiles
  /\ bucket' = (Destination(calls[c].videoId) :> tempFiles[TempPath(calls[c].videoId)])
                 @@ bucket
  /\ calls' = [calls EXCEPT ![c].pc = "uploaded"]
  /\ UNCHANGED <<aside, revision, videos, tempFiles, uploads, now>>

\* The handler resumes after the upload: fs.unlinkSync(tempPath), which
\* throws ENOENT when the file is gone (the catch block then answers 500),
\* then docRef.update(...) is started with analyzedAt: new Date().
AnalyzeUploaded(c) ==
  /\ calls[c].pc = "uploaded"
  /\ IF TempPath(calls[c].videoId) \in DOMAIN tempFiles
     THEN /\ tempFiles' = [p \in DOMAIN tempFiles \ {TempPath(calls[c].videoId)}
                             |-> tempFiles[p]]
          /\ calls' = [calls EXCEPT ![c] =
               [@ EXCEPT !.pc = "update", !.analyzedAt = now]]
     ELSE /\ calls' = [calls EXCEPT ![c] = Return(@, AnalysisFailed)]
          /\ UNCHANGED tempFiles
  /\ UNCHANGED <<aside, revision, videos, bucket, uploads, now>>

\* An update that leaves the status out.
AnalyzedFieldsNoStatus(videoId, parsed, t) ==
  [analysisPath |-> AnalysisPath(videoId), analysisSummary |-> parsed,
   analyzedAt |-> t]

\* The fields docRef.update writes.
AnalyzedFields(videoId, parsed, t) ==
  [analysisPath |-> AnalysisPath(videoId), analysisSummary |-> parsed,
   status |-> "analyzed", analyzedAt |-> t]

\* docRef.update merges the given fields into the document.
Update(doc, fields) == fields @@ doc

\* Firestore applies the update.
AnalyzeUpdated(c) ==
  /\ calls[c].pc = "update"
  /\ videos' = [videos EXCEPT ![calls[c].videoId] =
       Update(@, AnalyzedFields(calls[c].videoId, calls[c].parsed, calls[c].analyzedAt))]
  /\ calls' = [calls EXCEPT ![c].pc = "updated"]
  /\ UNCHANGED <<aside, revision, bucket, tempFiles, uploads, now>>

\* The handler resumes after the update and answers.
AnalyzeResponded(c) ==
  /\ calls[c].pc = "updated"
  /\ calls' = [calls EXCEPT ![c] = Return(@, AnalysisComplete)]
  /\ UNCHANGED <<aside, revision, videos, bucket, tempFiles, uploads, now>>

\* The external failure that can end each await.
Faults(pc) ==
  CASE pc = "get"      -> {"store"}
    [] pc = "annotate" -> {"annotation"}
    [] pc = "wait"     -> {"annotation", "timeout"}
    [] pc = "llm"      -> {"model"}
    [] pc = "upload"   -> {"store"}
    [] pc = "update"   -> {"store"}
    [] OTHER           -> {}

\* A catch block that submits the video once more when the annotation
\* failed or timed out.
AnalyzeRetriedOnce(c, fault) ==
  /\ \/ fault \in Faults(calls[c].pc)
     \/ /\ fault = "none"
        /\ calls[c].pc = "upload"
        /\ TempPath(calls[c].videoId) \notin DOMAIN tempFiles
  /\ calls' = [calls EXCEPT ![c] =
       IF fault \in {"annotation", "timeout"} /\ @.annotateCalls < 2
       THEN [@ EXCEPT !.pc = "annotate", !.annotateCalls = @ + 1]
       ELSE Return([@ EXCEPT !.fault = fault], AnalysisFailed)]
  /\ UNCHANGED <<aside, revision, videos, bucket, tempFiles, uploads, now>>

\* The awaited promise rejects: a collaborator failed, the wait on the
\* operation timed out, or the upload found no file at tempPath.  The
\* rejection is thrown into the try block, and the catch block answers 500.
AnalyzeRejected(c, fault) ==
  /\ \/ fault \in Faults(calls[c].pc)
     \/ /\ fault = "none"
        /\ calls[c].pc = "upload"
        /\ TempPath(calls[c].videoId) \notin DOMAIN tempFiles
  /\ calls' = [calls EXCEPT ![c] =
       Return([@ EXCEPT !.fault = fault], AnalysisFailed)]
  /\ UNCHANGED <<aside, revision, videos, bucket, tempFiles, uploads, now>>

\* ------------------------------------------------------------ specification

FaultKinds == {"none", "store", "annotation", "timeout", "model"}

Next ==
  \/ Tick
  \/ \E hasFile \in BOOLEAN : UploadRequest(hasFile)
  \/ \E u \in 1..Len(uploads) : UploadStored(u)
  \/ \E u \in 1..Len(uploads) : UploadAdded(u)
  \/ \E u \in 1..Len(uploads) : UploadRejected(u)
  \/ \E videoId \in 0..MaxVideos : AnalyzeRequest(videoId)
  \/ \E c \in 1..Len(calls) : AnalyzeGot(c)
  \/ \E c \in 1..Len(calls) : AnalyzeSubmitted(c)
  \/ \E c \in 1..Len(calls), annotations \in Payloads : AnalyzeAnnotated(c, annotations)
  \/ \E c \in 1..Len(calls), reply \in Replies : AnalyzeSummarized(c, reply)
  \/ \E c \in 1..Len(calls) : AnalyzeStored(c)
  \/ \E c \in 1..Len(calls) : AnalyzeUploaded(c)
  \/ \E c \in 1..Len(calls) : AnalyzeUpdated(c)
  \/ \E c \in 1..Len(calls) : AnalyzeResponded(c)
  \/ \E c \in 1..Len(calls), fault \in FaultKinds : AnalyzeRejected(c, fault)

Spec == Init /\ [][Next]_vars

\* ------------------------------------------------------------------ claims

Calls == 1..Len(calls)
Returned(c) == calls[c].pc = "done"
\* The call passed the handler's precondition checks on an existing job.
Admitted(c) == calls[c].annotateCalls > 0
InFlight(c) == Admitted(c) /\ ~Returned(c)
Has(doc, field) == field \in DOMAIN doc

\* C1: an analyze call on an existing job during which no collaborator
\* fails (the annotation completes, every store operation succeeds, and the
\* language model, when asked, returns a schema-conformant object) returns
\* success, with the job Analyzed and carrying its artifact reference.
C1_EndToEndSuccess ==
  \A c \in Calls :
    (Returned(c) /\ Admitted(c) /\ calls[c].fault = "none"
       /\ calls[c].reply \in {"none", "conformant"})
    => /\ calls[c].response = AnalysisComplete
       /\ videos[calls[c].videoId].status = "analyzed"
       /\ Has(videos[calls[c].videoId], "analysisPath")

\* The status steps of the job lifecycle, retry included.
LifecycleSteps ==
  { <<"uploaded", "analyzing">>, <<"analyzing", "analyzed">>,
    <<"analyzing", "failed">>, <<"analyzed", "analyzing">>,
    <<"failed", "analyzing">> }

\* C2: a job is created Uploaded, and every later change of its status is a
\* step of Uploaded -> Analyzing -> {Analyzed, Failed} or a retry's reset to
\* Analyzing.
C2_StatusLifecycle ==
  [][\A id \in DOMAIN videos' :
       IF id \in DOMAIN videos
       THEN \/ videos'[id].status = videos[id].status
            \/ <<videos[id].status, videos'[id].status>> \in LifecycleSteps
       ELSE videos'[id].status = "uploaded"]_vars

\* C3: once an admitted analyze call has returned, its job is Analyzed or
\* Failed: Analyzed if it answered success, Failed with a recorded reason
\* otherwise.
C3_TerminalAfterReturn ==
  \A c \in Calls :
    (Returned(c) /\ Admitted(c))
    => LET doc == videos[calls[c].videoId]
       IN  IF calls[c].response = AnalysisComplete
           THEN doc.status = "analyzed"
           ELSE doc.status = "failed" /\ Has(doc, "lastError")

\* C4: no two analyses of the same job id are in flight at once.
C4_SingleFlight ==
  \A c1, c2 \in Calls :
    (c1 # c2 /\ InFlight(c1) /\ InFlight(c2))
    => calls[c1].videoId # calls[c2].videoId

\* C5: a job record has an artifact reference (analysisPath) if and only if
\* its status is Analyzed.
C5_ArtifactRefIffAnalyzed ==
  \A id \in DOMAIN videos :
    Has(videos[id], "analysisPath") <=> videos[id].status = "analyzed"

\* One job has been analyzed and carries its reference while another is
\* still as uploaded, without one.
C5_Witness ==
  \E id1, id2 \in DOMAIN videos :
    /\ videos[id1].status = "analyzed" /\ Has(videos[id1], "analysisPath")
    /\ videos[id2].status = "uploaded" /\ ~Has(videos[id2], "analysisPath")

\* C6: a call has answered success only if the artifact is in the bucket
\* under the key the job record refers to and the record shows Analyzed;
\* a call struck by a store failure has not answered success.
C6_SuccessAfterBothWrites ==
  \A c \in Calls :
    /\ calls[c].response = AnalysisComplete
       => LET doc == videos[calls[c].videoId]
          IN  /\ doc.status = "analyzed"
              /\ Has(doc, "analysisPath")
              /\ doc.analysisPath \in DOMAIN bucket
              /\ JSONParses(bucket[doc.analysisPath])
    /\ calls[c].fault = "store" => calls[c].response # AnalysisComplete

\* One call has answered success and another, struck by a store failure
\* after its model reply, has answered failure.
C6_Witness ==
  \E c1, c2 \in Calls :
    /\ calls[c1].response = AnalysisComplete
    /\ calls[c2].fault = "store" /\ calls[c2].reply # "none"
    /\ calls[c2].response = AnalysisFailed

\* C7: a call for a job id with no record answers NotFound without calling
\* the annotation client or the language model, and changes no job record,
\* no bucket object and no file.
C7_NotFound ==
  /\ [](\A c \in Calls :
          calls[c].response = VideoNotFound
          => calls[c].annotateCalls = 0 /\ calls[c].llmCalls = 0)
  /\ [][\A c \in Calls :
          (calls[c].pc = "get" /\ calls'[c].pc # "get"
             /\ calls'[c].fault = "none"
             /\ calls[c].videoId \notin DOMAIN videos)
          => /\ calls'[c].response = VideoNotFound
             /\ UNCHANGED <<videos, bucket, tempFiles>>]_vars

\* A call answered NotFound while another job exists.
C7_Witness ==
  \E c \in Calls :
    /\ calls[c].response = VideoNotFound
    /\ DOMAIN videos # {}
    /\ calls[c].videoId \notin DOMAIN videos

\* C8: a call whose wait on the annotation operation timed out has not
\* invoked the language model, and its job is Failed with a lastError that
\* mentions the timeout.
C8_TimeoutFailsJob ==
  \A c \in Calls :
    (Returned(c) /\ calls[c].fault = "timeout")
    => LET doc == videos[calls[c].videoId]
       IN  /\ calls[c].llmCalls = 0
           /\ doc.status = "failed"
           /\ Has(doc, "lastError")

\* C9: a call whose model reply parses but lacks a required top-level
\* member fails at once: it never goes on to write the artifact or the
\* record, and never answers success.
C9_SchemaViolation ==
  \A c \in Calls :
    calls[c].reply = "schema"
    => Returned(c) /\ calls[c].response.status # 200

\* C10: a call whose model reply has no "{" or no "}", or whose text from
\* the first "{" to the last "}" is no JSON, answers the invalid-JSON
\* failure in the step that reads the reply, and that step writes no file,
\* no bucket object and no job record.
C10_MalformedResponse ==
  /\ [](\A c \in Calls :
          calls[c].reply = "malformed"
          => Returned(c) /\ calls[c].response = InvalidJSON)
  /\ [][\A c \in Calls :
          (calls[c].reply = "none" /\ calls'[c].reply = "malformed")
          => UNCHANGED <<videos, bucket, tempFiles>>]_vars

\* A call on an existing job got a malformed reply and has returned.
C10_Witness ==
  \E c \in Calls :
    /\ calls[c].reply = "malformed"
    /\ Returned(c)
    /\ calls[c].videoId \in DOMAIN videos
    /\ calls[c].llmCalls = 1

\* ---------------------------------------------------- the reply, on its own

\* Longest prose before and after the object of a reply.
MaxAffix == 2

\* What the analyze handler makes of a reply (part_000): the reply trimmed,
\* the text from its first "{" to its last "}", and JSON.parse of it.
ParseReply(reply) ==
  LET text == ExtractJSON(Trim(reply))
  IN  IF JSONParses(text)
      THEN [ok |-> TRUE, value |-> JSONParse(text)]
      ELSE [ok |-> FALSE, value |-> Undefined]

\* Prose: text with no brace in it.
AffixTokens == {PROSE, SP, COMMA, "a"}
Affixes == UNION {[1..n -> AffixTokens] : n \in 0..MaxAffix}

\* Objects with every required member: plain, with an object as a value,
\* with one more member, and laid out with white space.
ConformantObjects ==
  { ObjectText(SchemaOrder, "a"),
    <<LB, "shotZones", LB, "note", "b", RB, COMMA>>
       \o ObjectMembers(Tail(SchemaOrder), "a") \o <<RB>>,
    <<LB>> \o ObjectMembers(SchemaOrder, "b") \o <<COMMA, "note", LB, RB, RB>>,
    <<LB, SP>> \o ObjectMembers(SchemaOrder, "a") \o <<SP, RB>> }

\* The state the functions are applied in: the server is up and idle.
Idle ==
  /\ videos = Empty
  /\ bucket = Empty
  /\ tempFiles = Empty
  /\ uploads = << >>
  /\ calls = << >>
  /\ now = 0
  /\ lastUploadedFile = Undefined

ParseInit ==
  /\ revision = "part_000"
  /\ Idle
  /\ probe \in [op : {"parse"}, prefix : Affixes, json : ConformantObjects,
                suffix : Affixes, done : {FALSE}, out : {ParseReply(<< >>)}]

\* The handler's parsing is applied to prefix + json + suffix.
ParseApply ==
  /\ probe.op = "parse"
  /\ ~probe.done
  /\ probe' = [probe EXCEPT !.done = TRUE,
                 !.out = ParseReply(probe.prefix \o probe.json \o probe.suffix)]
  /\ UNCHANGED <<revision, videos, bucket, tempFiles, uploads, calls, now,
                 lastUploadedFile>>

ParseNext == ParseApply

ParseSpec == ParseInit /\ [][ParseNext]_vars

\* C11: for a reply prefix + J + suffix with J a schema-conformant object
\* and no brace in prefix and suffix, parsing succeeds and yields exactly
\* the object J (J's own text, white space apart): the prose around it has
\* no effect.
C11_ProseIgnored ==
  (probe.op = "parse" /\ probe.done)
  => /\ probe.out.ok
     /\ probe.out.value = Significant(probe.json)
     /\ RequiredKeys \subseteq TopKeys(probe.out.value)

\* A reply with prose on both sides of an object that has an object as a
\* value has been parsed.
C11_Witness ==
  /\ probe.op = "parse" /\ probe.done
  /\ probe.prefix = <<PROSE, SP>>
  /\ probe.suffix = <<SP, PROSE>>
  /\ \E i \in 2..Len(probe.json) : probe.json[i] = LB
  /\ probe.out.ok

\* ------------------------------------------------ feature lines, on their own

\* Longest label list of an annotation payload.
MaxLabels == 11

\* The first labels of the chat handlers.
ChatLabelLimit == 5

\* `${l.entity.description}: ${l.segments.length} segments`, for a label
\* that has segments.
ChatLine(l) == l.description \o ": " \o ToString(l.segments) \o " segments"

RECURSIVE MapChatLines(_)
MapChatLines(ls) ==
  IF ls = << >> THEN << >> ELSE <<ChatLine(Head(ls))>> \o MapChatLines(Tail(ls))

Text(lines) == [kind |-> "text", lines |-> lines]

\* metadata.segmentLabelAnnotations?.slice(0, 5).map(...).join('\n') of the
\* chat handlers (all revisions): undefined for an absent list, a TypeError
\* at a label without segments, else the joined lines (none for no label).
ChatLabels(metadata) ==
  LET first == Slice(metadata.labels, 0, ChatLabelLimit)
  IN  IF ~metadata.hasLabels THEN [kind |-> "undefined", lines |-> << >>]
      ELSE IF \E i \in 1..Len(first) : first[i].segments < 0
      THEN [kind |-> "TypeError", lines |-> << >>]
      ELSE Text(MapChatLines(first))

Descriptions == <<"drive", "court", "ball">>

\* A payload of n labels whose descriptions start at the o-th one and whose
\* k-th label has the segments s (-1: none); the others have 0, 1 or 2.
LabelsOf(n, o, k, s) ==
  LabelList([i \in 1..n |->
     Label(Descriptions[((i + o) % Len(Descriptions)) + 1],
           IF i = k THEN s ELSE i % 3)])

LabelPayloads ==
  {NoLabelList}
    \cup {LabelsOf(n, o, k, s) :
            n \in 0..MaxLabels, o \in 0..2, k \in {1, 5, 6, 11}, s \in {-1, 3}}

LabelsInit ==
  /\ revision \in Revisions
  /\ Idle
  /\ probe \in [op : {"labels"}, payload : LabelPayloads,
                analyzed : {FALSE}, chatted : {FALSE},
                analyze : {Text(<< >>)}, chat : {Text(<< >>)}]

\* The analyze handler builds its feature lines from the payload.
LabelsAnalyze ==
  /\ probe.op = "labels"
  /\ revision = "part_000"
  /\ ~probe.analyzed
  /\ probe' = [probe EXCEPT !.analyzed = TRUE,
                            !.analyze = Text(AnalyzeLabels(probe.payload))]
  /\ UNCHANGED <<revision, videos, bucket, tempFiles, uploads, calls, now,
                 lastUploadedFile>>

\* A chat handler builds its feature lines from the same payload.
LabelsChat ==
  /\ probe.op = "labels"
  /\ ~probe.chatted
  /\ probe' = [probe EXCEPT !.chatted = TRUE,
                            !.chat = ChatLabels(probe.payload)]
  /\ UNCHANGED <<revision, videos, bucket, tempFiles, uploads, calls, now,
                 lastUploadedFile>>

LabelsNext == LabelsAnalyze \/ LabelsChat

LabelsSpec == LabelsInit /\ [][LabelsNext]_vars

\* The feature lines the specification asks for.
FeatureLine(l) ==
  l.description \o ": "
    \o ToString(IF l.segments < 0 THEN 0 ELSE l.segments) \o " segments"

FeatureLines(payload, limit) ==
  LET n == Min(limit, Len(payload.labels))
  IN  IF ~payload.hasLabels \/ n = 0
      THEN <<"No labels found">>
      ELSE [i \in 1..n |-> FeatureLine(payload.labels[i])]

\* The analyze handler's feature lines are those asked for.
AnalyzeFeatureLines ==
  (probe.op = "labels" /\ probe.analyzed)
  => probe.analyze = Text(FeatureLines(probe.payload, AnalyzeLabelLimit))

\* C12: wherever feature lines are built, they are one line
\* "<description>: <segment count> segments" for each of the first `limit`
\* labels in the payload's order, and exactly "No labels found" when the
\* label list is empty or absent: in the analyze handler (limit 10) and in
\* the chat handlers (limit 5).
C12_FeatureLines ==
  /\ AnalyzeFeatureLines
  /\ (probe.op = "labels" /\ probe.chatted)
     => probe.chat = Text(FeatureLines(probe.payload, ChatLabelLimit))

\* ------------------------------------------------------ the legacy revisions

\* The revisions that keep no record of a video: the first file of part_000
\* and part_001.  They differ in the timeout of the wait only.
LegacyRevisions == {"part_000 (legacy)", "part_001"}

MetadataFile == <<"metadata.json">>

NoVideoUploaded == Response(400, "No video uploaded yet.")
MetadataSaved == Response(200, "Video analysis complete and metadata saved.")
FailedToAnalyze == Response(500, "Failed to analyze video")

LegacyInit ==
  /\ revision \in LegacyRevisions
  /\ Idle
  /\ probe = NoProbe

\* POST /upload-video.  Without a file: 400.  With one, the handler assigns
\* lastUploadedFile and starts bucket.upload.
LegacyUploadRequest(hasFile) ==
  /\ Len(uploads) < MaxVideos
  /\ uploads' = Append(uploads,
       IF hasFile
       THEN NewUpload("bucket", UploadFilename(Len(uploads) + 1), NoResponse)
       ELSE NewUpload("done", Undefined, Response(400, "No file uploaded.")))
  /\ lastUploadedFile' =
       IF hasFile THEN UploadFilename(Len(uploads) + 1) ELSE lastUploadedFile
  /\ UNCHANGED <<revision, videos, bucket, tempFiles, calls, now, probe>>

\* bucket.upload resolved: the handler answers.
LegacyUploadStored(u) ==
  /\ uploads[u].pc = "bucket"
  /\ bucket' = (uploads[u].filename :> <<"video">>) @@ bucket
  /\ uploads' = [uploads EXCEPT ![u] =
       [@ EXCEPT !.pc = "done",
                 !.response = Response(200, "Video uploaded successfully.")]]
  /\ UNCHANGED <<aside, revision, videos, tempFiles, calls, now>>

\* bucket.upload rejected: 500.  lastUploadedFile keeps the file's name.
LegacyUploadRejected(u) ==
  /\ uploads[u].pc = "bucket"
  /\ uploads' = [uploads EXCEPT ![u] =
       [@ EXCEPT !.pc = "done", !.response = Response(500, "Upload failed")]]
  /\ UNCHANGED <<aside, revision, videos, bucket, tempFiles, calls, now>>

\* GET /analyze-video by a caller who means the video of its videoId-th
\* upload request (0: no video in particular).  The handler reads no
\* parameter: with lastUploadedFile empty it answers 400, otherwise it builds
\* gcsUri from lastUploadedFile and calls videoClient.annotateVideo.
LegacyAnalyzeRequest(videoId) ==
  /\ Len(calls) < MaxCalls
  /\ \/ videoId = 0
     \/ (videoId \in 1..Len(uploads) /\ uploads[videoId].filename # Undefined)
  /\ calls' = Append(calls,
       IF lastUploadedFile = Undefined
       THEN NewCall("done", videoId, NoVideoUploaded)
       ELSE [NewCall("annotate", videoId, NoResponse)
               EXCEPT !.gcsUri = GcsUri(lastUploadedFile),
                      !.annotateCalls = 1])
  /\ UNCHANGED <<aside, revision, videos, bucket, tempFiles, uploads, now>>

\* annotateVideo resolved: the handler awaits operation.promise.
LegacyAnalyzeSubmitted(c) ==
  /\ calls[c].pc = "annotate"
  /\ calls' = [calls EXCEPT ![c].pc = "wait"]
  /\ UNCHANGED <<aside, revision, videos, bucket, tempFiles, uploads, now>>

\* The operation resolved: the payload is written to metadata.json, and the
\* handler answers.
LegacyAnalyzeAnnotated(c, annotations) ==
  /\ calls[c].pc = "wait"
  /\ tempFiles' = (MetadataFile :>
                     [inputUri |-> calls[c].gcsUri, annotations |-> annotations])
                  @@ tempFiles
  /\ calls' = [calls EXCEPT ![c] = Return(@, MetadataSaved)]
  /\ UNCHANGED <<aside, revision, videos, bucket, uploads, now>>

\* annotateVideo or the wait rejects: the catch block answers 500.
LegacyAnalyzeRejected(c, fault) ==
  /\ calls[c].pc \in {"annotate", "wait"}
  /\ fault \in Faults(calls[c].pc)
  /\ calls' = [calls EXCEPT ![c] =
                 [Return(@, FailedToAnalyze) EXCEPT !.fault = fault]]
  /\ UNCHANGED <<aside, revision, videos, bucket, tempFiles, uploads, now>>

LegacyNext ==
  \/ \E hasFile \in BOOLEAN : LegacyUploadRequest(hasFile)
  \/ \E u \in 1..Len(uploads) : LegacyUploadStored(u)
  \/ \E u \in 1..Len(uploads) : LegacyUploadRejected(u)
  \/ \E videoId \in 0..MaxVideos : LegacyAnalyzeRequest(videoId)
  \/ \E c \in 1..Len(calls) : LegacyAnalyzeSubmitted(c)
  \/ \E c \in 1..Len(calls), annotations \in Payloads :
       LegacyAnalyzeAnnotated(c, annotations)
  \/ \E c \in 1..Len(calls), fault \in FaultKinds : LegacyAnalyzeRejected(c, fault)

LegacySpec == LegacyInit /\ [][LegacyNext]_vars

\* The video a caller of the legacy revisions means.
Meant(call) == GcsUri(uploads[call.videoId].filename)

\* C13: the video an analyze call annotates is the one the caller names,
\* whatever has been uploaded before or since, and the results of an
\* analysis that succeeded stay stored when another video is analyzed.
C13_TargetByJobId ==
  \A c \in 1..Len(calls) :
    calls[c].videoId > 0 =>
      /\ calls[c].pc \in {"annotate", "wait"} => calls[c].gcsUri = Meant(calls[c])
      /\ calls[c].response = MetadataSaved =>
           \E f \in DOMAIN tempFiles : tempFiles[f].inputUri = Meant(calls[c])

\* ------------------------------------------------- claims on the whole server

\* Why a returned call failed, in the specification's error kinds ("none":
\* it did not fail for one of these causes).
FailureCause(call) ==
  CASE call.response = VideoNotFound          -> "NotFound"
    [] call.fault = "timeout"                 -> "Timeout"
    [] call.fault \in {"annotation", "model"} -> "UpstreamError"
    [] call.fault = "store"                   -> "StoreError"
    [] call.reply = "malformed"               -> "MalformedResponse"
    [] OTHER                                  -> "none"

\* C14: two analyze calls that failed for different causes (NotFound,
\* Timeout, UpstreamError, MalformedResponse, StoreError) are answered
\* differently, so that the caller can tell the causes apart.
C14_DistinctErrorKinds ==
  \A c, d \in Calls :
    ( /\ Returned(c) /\ Returned(d)
      /\ FailureCause(calls[c]) # "none"
      /\ FailureCause(calls[d]) # "none"
      /\ FailureCause(calls[c]) # FailureCause(calls[d]) )
    => calls[c].response # calls[d].response

\* C15: a job record has a lastError field exactly when its status is
\* "failed".
C15_LastErrorIffFailed ==
  \A id \in DOMAIN videos :
    Has(videos[id], "lastError") <=> videos[id].status = "failed"

\* An analysis of an existing job has failed on a collaborator, and the
\* handler has returned.
C15_Witness ==
  \E c \in Calls :
    /\ Returned(c) /\ Admitted(c)
    /\ calls[c].fault # "none"
    /\ calls[c].videoId \in DOMAIN videos
    /\ ~Has(videos[calls[c].videoId], "lastError")

\* C16: a job's creation timestamp never changes, and once analyzedAt is
\* set on a job no later step changes it, a second analysis of the same job
\* included.
C16_TimestampsWrittenOnce ==
  [][\A id \in DOMAIN videos :
       /\ videos'[id].uploadedAt = videos[id].uploadedAt
       /\ Has(videos[id], "analyzedAt")
            => videos'[id].analyzedAt = videos[id].analyzedAt]_vars

\* The keys of the bucket that hold analysis artifacts.
ArtifactKeys(b) == {k \in DOMAIN b : k[1] = "analysis/analysis_"}

\* C17: within one analyze call the language model is called only when the
\* annotation operation has completed, the artifact is written only when
\* the language model has answered, and the job record is updated to
\* analyzed only when the artifact has been written; a call that failed
\* has returned and takes no further step.  No artifact and no record
\* changes outside these steps.
C17_StepOrder ==
  [][/\ \A c \in Calls :
          LET old == calls[c]
              new == calls'[c]
          IN  /\ new.llmCalls > old.llmCalls
                   => old.pc = "wait" /\ old.annotateCalls = 1 /\ old.llmCalls = 0
              /\ (new.pc = "uploaded" /\ old.pc # "uploaded")
                   => /\ old.pc = "upload" /\ old.llmCalls = 1
                      /\ old.parsed # Undefined
                      /\ Destination(old.videoId) \in DOMAIN bucket'
              /\ (new.pc = "updated" /\ old.pc # "updated")
                   => /\ old.pc = "update"
                      /\ Destination(old.videoId) \in DOMAIN bucket
                      /\ videos'[old.videoId].status = "analyzed"
              /\ old.pc = "done" => new = old
              /\ (new.fault # "none" \/ new.response.status >= 400)
                   => new.pc = "done"
     /\ (\E k \in ArtifactKeys(bucket') : k \notin DOMAIN bucket \/ bucket'[k] # bucket[k])
          => \E c \in Calls : calls[c].pc = "upload" /\ calls'[c].pc = "uploaded"
     /\ (\E id \in DOMAIN videos : videos'[id] # videos[id])
          => \E c \in Calls : calls[c].pc = "update" /\ calls'[c].pc = "updated"
    ]_vars

\* A call has gone through every step: the record is analyzed.
C17_Witness ==
  \E c \in Calls :
    /\ calls[c].pc = "updated"
    /\ calls[c].annotateCalls = 1 /\ calls[c].llmCalls = 1
    /\ Destination(calls[c].videoId) \in DOMAIN bucket
    /\ videos[calls[c].videoId].status = "analyzed"

\* The job's artifact is in the bucket, the record update of the call that
\* wrote it failed, and no call is at work on the job: each has returned or
\* has only just arrived.
AwaitsResume(id) ==
  /\ id \in DOMAIN videos
  /\ Destination(id) \in DOMAIN bucket
  /\ videos[id].status # "analyzed"
  /\ \E d \in Calls :
       calls[d].videoId = id /\ Returned(d) /\ calls[d].fault = "store"
  /\ \A d \in Calls : calls[d].videoId = id => Returned(d) \/ calls[d].pc = "get"

\* C18: a job whose artifact was written but whose record update failed
\* remains "analyzing", and a retry of analyze for it does not submit the
\* video to the annotation client again.
C18_IdempotentResume ==
  [][\A id \in DOMAIN videos :
       AwaitsResume(id) =>
         /\ videos[id].status = "analyzing"
         /\ \A c \in Calls :
              calls[c].videoId = id
                => calls'[c].annotateCalls = calls[c].annotateCalls]_vars

\* The call has written its artifact.
Stored(c) ==
  calls[c].pc \in {"uploaded", "update", "updated"}
    \/ calls[c].response = AnalysisComplete

\* C19: every analysis artifact in the bucket is under the key of one job,
\* derived from the job's id alone; a job has at most one artifact however
\* often it is analyzed, two jobs never have the same key, and the record's
\* analysisPath names that key.
C19_ArtifactKeyByJob ==
  /\ \A k \in ArtifactKeys(bucket) :
       k[2] \in DOMAIN videos /\ k = Destination(k[2])
  /\ \A id \in DOMAIN videos :
       /\ Cardinality({k \in ArtifactKeys(bucket) : k[2] = id}) <= 1
       /\ Has(videos[id], "analysisPath")
            => /\ videos[id].analysisPath = Destination(id)
               /\ Destination(id) \in DOMAIN bucket
  /\ \A i, j \in DOMAIN videos : i # j => Destination(i) # Destination(j)
  /\ Cardinality(ArtifactKeys(bucket)) <= Cardinality(DOMAIN videos)

\* A job has been analyzed twice, at different times, and has one artifact.
C19_Witness ==
  \E c, d \in Calls :
    /\ c # d
    /\ calls[c].videoId = calls[d].videoId
    /\ Stored(c) /\ Stored(d)
    /\ now > 0
    /\ Cardinality(ArtifactKeys(bucket)) = 1

\* C20: within one analyze call the video is submitted to the annotation
\* client at most once and the language model is asked at most once,
\* whatever fails; a call that has returned submits nothing more.
C20_NoAutomaticRetry ==
  \A c \in Calls :
    /\ calls[c].annotateCalls <= 1
    /\ calls[c].llmCalls <= 1
    /\ calls[c].llmCalls <= calls[c].annotateCalls

\* Calls have failed on the annotation and on the language model, each
\* after a single submission.
C20_Witness ==
  \E c, d \in Calls :
    /\ Returned(c) /\ calls[c].fault \in {"annotation", "timeout"}
    /\ calls[c].annotateCalls = 1 /\ calls[c].llmCalls = 0
    /\ Returned(d) /\ calls[d].fault = "model"
    /\ calls[d].annotateCalls = 1 /\ calls[d].llmCalls = 1

\* ------------------------------------------------------------ what must happen

\* A step of the c-th analyze call that is bound to happen once it can: the
\* record store and the bucket answer, the submission to the annotation
\* client is answered, the wait on the operation ends by its result or by
\* its timeout of 600000 ms, and the handler runs on when a promise is
\* settled.  The language model owes no answer, and the call to it has no
\* timeout and takes no signal.
Progress(c) ==
  /\ c \in Calls
  /\ \/ AnalyzeGot(c)
     \/ AnalyzeSubmitted(c)
     \/ \E annotations \in Payloads : AnalyzeAnnotated(c, annotations)
     \/ AnalyzeRejected(c, "timeout")
     \/ AnalyzeStored(c)
     \/ AnalyzeUploaded(c)
     \/ AnalyzeUpdated(c)
     \/ AnalyzeResponded(c)
     \/ AnalyzeRejected(c, "none")

FairSpec == Spec /\ \A c \in 1..MaxCalls : WF_vars(Progress(c))

\* C21: every analyze call eventually returns, also when the annotation
\* operation or the language model never completes.
C21_EveryCallReturns ==
  \A c \in 1..MaxCalls : (c \in Calls) ~> (c \in Calls /\ Returned(c))

\* No call is at work on the job, and no collaborator failed in any call
\* for it.
Settled(id) ==
  \A c \in Calls :
    calls[c].videoId = id => Returned(c) /\ calls[c].fault = "none"

\* The artifact of every analyzed job at rest is its record's summary, as
\* the handler writes it.
ArtifactIsSummary ==
  \A id \in DOMAIN videos :
    (videos[id].status = "analyzed" /\ Settled(id))
      => /\ videos[id].analysisPath \in DOMAIN bucket
         /\ bucket[videos[id].analysisPath]
              = JSONStringify(videos[id].analysisSummary)

\* C22: under any interleaving of analyze calls, two overlapping calls for
\* one videoId included, the artifact at an analyzed job's analysisPath
\* holds the summary of the job record, and a call whose reply parsed and
\* whose artifact upload succeeded returns success unless a collaborator
\* fails.
C22_SharedTempFile ==
  [][/\ ArtifactIsSummary'
     /\ \A c \in Calls :
          ( /\ calls[c].pc \in {"uploaded", "update", "updated"}
            /\ calls'[c].pc = "done"
            /\ calls'[c].fault = "none" )
          => calls'[c].response = AnalysisComplete]_vars

\* C23: after every step, a job record that has an analysisPath has an
\* artifact in the bucket at exactly that key; no step removes an artifact,
\* a job record or a record's analysisPath.
C23_ReferentialIntegrity ==
  [][/\ \A id \in DOMAIN videos' :
          Has(videos'[id], "analysisPath")
            => videos'[id].analysisPath \in ArtifactKeys(bucket')
     /\ DOMAIN bucket \subseteq DOMAIN bucket'
     /\ \A id \in DOMAIN videos :
          /\ id \in DOMAIN videos'
          /\ Has(videos[id], "analysisPath") => Has(videos'[id], "analysisPath")
    ]_vars

\* A job has its artifact reference, and another call for it has failed
\* after it asked the language model.
C23_Witness ==
  \E id \in DOMAIN videos :
    /\ Has(videos[id], "analysisPath")
    /\ videos[id].analysisPath \in DOMAIN bucket
    /\ \E c \in Calls :
         /\ calls[c].videoId = id /\ Returned(c)
         /\ calls[c].llmCalls = 1
         /\ calls[c].response = AnalysisFailed

\* ---------------------------------------------------------------------- /chat

\* Analyze calls made before the chat request that is followed here.
MaxCallsBeforeChat == 1

ChatFailed == Response(500, "Chat failed")

\* A chat request: where the handler stands, the analysisPath it read, the
\* labels it put into its prompt, and its answer.
NewChat(pc, videoId, response) ==
  [op |-> "chat", pc |-> pc, videoId |-> videoId, analysisPath |-> Undefined,
   labels |-> Text(<< >>), response |-> response]

\* metadata.segmentLabelAnnotations?.slice(0, 5).map(...).join('\n') on the
\* parsed artifact.  The artifact is an object; without a member
\* segmentLabelAnnotations the labels are undefined, and a member that is
\* no list of labels makes slice or map throw.
MetadataLabels(metadata) ==
  IF "segmentLabelAnnotations" \in TopKeys(metadata)
  THEN [kind |-> "TypeError", lines |-> << >>]
  ELSE ChatLabels(NoLabelList)

\* GET /chat with query parameter videoId (0: none given): 400, or the
\* handler starts doc(videoId).get().
ChatRequest(videoId) ==
  /\ probe = NoProbe
  /\ probe' = IF videoId = 0
              THEN NewChat("done", videoId, Response(400, "videoId required"))
              ELSE NewChat("get", videoId, NoResponse)
  /\ UNCHANGED <<revision, videos, bucket, tempFiles, uploads, calls, now,
                 lastUploadedFile>>

\* get() resolved.  No document: 404.  Otherwise the handler reads
\* analysisPath and starts the download; with no analysisPath in the
\* record there is nothing to download (file(undefined) throws), and the
\* catch block answers 500.
ChatGot ==
  /\ probe.op = "chat" /\ probe.pc = "get"
  /\ probe' =
       IF probe.videoId \notin DOMAIN videos
       THEN [probe EXCEPT !.pc = "done", !.response = VideoNotFound]
       ELSE IF ~Has(videos[probe.videoId], "analysisPath")
       THEN [probe EXCEPT !.pc = "done", !.response = ChatFailed]
       ELSE [probe EXCEPT !.pc = "download",
                          !.analysisPath = videos[probe.videoId].analysisPath]
  /\ UNCHANGED <<revision, videos, bucket, tempFiles, uploads, calls, now,
                 lastUploadedFile>>

\* The download resolved with the object at analysisPath (it rejects when
\* there is none).  The handler parses it, builds the labels and the prompt
\* and calls openai.chat.completions.create.
ChatDownloaded ==
  /\ probe.op = "chat" /\ probe.pc = "download"
  /\ probe' =
       IF probe.analysisPath \notin DOMAIN bucket
            \/ ~JSONParses(bucket[probe.analysisPath])
       THEN [probe EXCEPT !.pc = "done", !.response = ChatFailed]
       ELSE LET labels == MetadataLabels(JSONParse(bucket[probe.analysisPath]))
            IN  IF labels.kind = "TypeError"
                THEN [probe EXCEPT !.pc = "done", !.response = ChatFailed]
                ELSE [probe EXCEPT !.pc = "llm", !.labels = labels]
  /\ UNCHANGED <<revision, videos, bucket, tempFiles, uploads, calls, now,
                 lastUploadedFile>>

\* The language model answered: the handler sends its reply.
ChatAnswered ==
  /\ probe.op = "chat" /\ probe.pc = "llm"
  /\ probe' = [probe EXCEPT !.pc = "done", !.response = Response(200, "content")]
  /\ UNCHANGED <<revision, videos, bucket, tempFiles, uploads, calls, now,
                 lastUploadedFile>>

\* get, download or the language model rejects: the catch block answers 500.
ChatRejected ==
  /\ probe.op = "chat" /\ probe.pc \in {"get", "download", "llm"}
  /\ probe' = [probe EXCEPT !.pc = "done", !.response = ChatFailed]
  /\ UNCHANGED <<revision, videos, bucket, tempFiles, uploads, calls, now,
                 lastUploadedFile>>

ChatNext ==
  \/ Next /\ Len(calls') <= MaxCallsBeforeChat
  \/ \E videoId \in 0..MaxVideos : ChatRequest(videoId)
  \/ ChatGot
  \/ ChatDownloaded
  \/ ChatAnswered
  \/ ChatRejected

ChatSpec == Init /\ [][ChatNext]_vars

\* C24: when /chat has built its prompt for a video whose analysis
\* succeeded, the labels in the prompt are text made of the label lines of
\* that video, at most 5 of them: never an undefined or missing value.
C24_ChatReadsLabels ==
  (probe.op = "chat" /\ probe.pc \in {"llm", "done"}
     /\ probe.response.status \in {0, 200}
     /\ probe.videoId \in DOMAIN videos
     /\ videos[probe.videoId].status = "analyzed")
  => /\ probe.labels.kind = "text"
     /\ Len(probe.labels.lines) <= ChatLabelLimit
====
